---- MODULE Spec2Model ----
(***************************************************************************)
(* Ohm's Law simulation: OhmsLawModel (voltageProperty, resistanceProperty *)
(* and the derived currentProperty), the views that observe it (WireBox,   *)
(* ResistorNode, SliderUnit) and WireBox.getArrowSizeDescription.          *)
(*                                                                         *)
(* Units.  Voltages are held in tenths of a volt (0.1 V is 1, 9.9 V is     *)
(* 99), resistances in ohms.  A current is the exact rational number of    *)
(* milliamps [n |-> numerator, d |-> denominator] in lowest terms, d > 0;  *)
(* d = 0 stands for the non-finite doubles a division by zero yields:      *)
(* n = 1 Infinity, n = -1 -Infinity, n = 0 NaN.  Arrow heights are whole   *)
(* numbers of view units.                                                  *)
(*                                                                         *)
(* An observer call is recorded as a log entry holding the listener, the   *)
(* property that changed, the value passed and the three property values   *)
(* a read inside the callback would return.  `log` holds the entries of    *)
(* the last operation, in call order.                                      *)
(***************************************************************************)
EXTENDS Integers, Sequences, FiniteSets, TLC

VARIABLES voltage, resistance, current,
          voltageListeners, resistanceListeners, currentListeners,
          log, lastOp, prev, thrown,
          wireBox, minArrowHeight, bottomLeftArrowHeight,
          sliderUnits, sizeIndex, assertion, visibleDots

vars == <<voltage, resistance, current,
          voltageListeners, resistanceListeners, currentListeners,
          log, lastOp, prev, thrown,
          wireBox, minArrowHeight, bottomLeftArrowHeight,
          sliderUnits, sizeIndex, assertion, visibleDots>>

----------------------------------------------------------------------------
(* Bounds *)

\* number of intervals the slider track is divided into; the positions a
\* drag can report are the grid points, one grid step beyond either end of
\* the track, and position 0
GridSteps == 2

----------------------------------------------------------------------------
(* Configuration (OhmsLawConstants) *)

\* OhmsLawConstants.VOLTAGE_RANGE, in tenths of a volt: [0.1, 9.9], default 4.5
VOLTAGE_RANGE == [min |-> 1, max |-> 99, defaultValue |-> 45]

\* OhmsLawConstants.RESISTANCE_RANGE, in ohms: [10, 1000], default 500
RESISTANCE_RANGE == [min |-> 10, max |-> 1000, defaultValue |-> 500]

\* OhmsLawConstants.WIRE_HEIGHT
HEIGHT == 180

\* OhmsLawConstants.WIRE_WIDTH
WIDTH == 232

\* OhmsLawConstants.RELATIVE_SIZE_STRINGS.length
NumRelativeSizeStrings == 6

----------------------------------------------------------------------------
(* Arithmetic *)

Abs(x) == IF x < 0 THEN -x ELSE x

RECURSIVE GCD(_, _)
GCD(a, b) == IF b = 0 THEN a ELSE GCD(b, a % b)

\* the quotient n / d as a double would hold it
Quotient(n, d) ==
  IF d = 0
    THEN [n |-> IF n > 0 THEN 1 ELSE IF n < 0 THEN -1 ELSE 0, d |-> 0]
    ELSE LET s == IF d < 0 THEN -1 ELSE 1
             g == GCD(Abs(n), Abs(d))
         IN  [n |-> (s * n) \div g, d |-> (s * d) \div g]

NaN == [n |-> 0, d |-> 0]

IsFinite(c) == c.d # 0

\* Property.equalsValue: a === b, which is false when either side is NaN
ValuesEqual(a, b) == a = b /\ a # NaN

Clamp(x, lo, hi) == IF x < lo THEN lo ELSE IF x > hi THEN hi ELSE x

----------------------------------------------------------------------------
(* OhmsLawModel *)

\* the derivation of currentProperty: 1000 * voltage / resistance
\* (voltage is held in tenths of a volt, hence the 10)
Derivation_noScale(v, r) == Quotient(v, 10 * r)
Derivation(v, r) == Quotient(1000 * v, 10 * r)

\* the properties the constructor defines
ModelProperties == {"voltageProperty", "resistanceProperty", "currentProperty"}

\* the listener DerivedProperty registers on each of its dependencies
DerivedListener == "currentProperty"

State == [voltage |-> voltage, resistance |-> resistance, current |-> current]

Listeners == [voltage |-> voltageListeners, resistance |-> resistanceListeners,
              current |-> currentListeners]

\* one observer call: listener l is told that property p changed
Entry(l, p, st) ==
  [listener |-> l, property |-> p, value |-> st[p],
   voltage |-> st.voltage, resistance |-> st.resistance, current |-> st.current]

\* currentProperty notifies its listeners in registration order
NotifyCurrent_twice(st, L) ==
  [i \in 1..(2 * Len(L.current)) |->
     Entry(L.current[((i - 1) % Len(L.current)) + 1], "current", st)]
NotifyCurrent(st, L) ==
  [i \in 1..Len(L.current) |-> Entry(L.current[i], "current", st)]

\* the DerivedProperty listener: re-derive, store and notify if changed
DerivedSet_stale(st, L) == [st |-> st, log |-> <<>>]
DerivedSet(st, L) ==
  LET c == Derivation(st.voltage, st.resistance)
  IN  IF ValuesEqual(st.current, c)
        THEN [st |-> st, log |-> <<>>]
        ELSE LET s2 == [st EXCEPT !.current = c]
             IN  [st |-> s2, log |-> NotifyCurrent(s2, L)]

\* a property notifies its listeners ls in registration order
RECURSIVE NotifyListeners(_, _, _, _, _)
RECURSIVE NotifyListeners_derivedLast(_, _, _, _, _)
NotifyListeners_derivedLast(p, ls, st, L, lg) ==
  IF ls = <<>> THEN [st |-> st, log |-> lg]
  ELSE IF Head(ls) = DerivedListener /\ Len(ls) > 1
    THEN NotifyListeners_derivedLast(p, Append(Tail(ls), Head(ls)), st, L, lg)
  ELSE IF Head(ls) = DerivedListener
    THEN LET r == DerivedSet(st, L)
         IN  [st |-> r.st, log |-> lg \o r.log]
  ELSE NotifyListeners_derivedLast(p, Tail(ls), st, L,
                                   Append(lg, Entry(Head(ls), p, st)))
NotifyListeners(p, ls, st, L, lg) ==
  IF ls = <<>> THEN [st |-> st, log |-> lg]
  ELSE IF Head(ls) = DerivedListener
    THEN LET r == DerivedSet(st, L)
         IN  NotifyListeners(p, Tail(ls), r.st, L, lg \o r.log)
  ELSE NotifyListeners(p, Tail(ls), st, L, Append(lg, Entry(Head(ls), p, st)))

\* NumberProperty.set on voltageProperty or resistanceProperty: no range is
\* given to the property, the value is stored as passed
PropertySet_shared(p, x, st, L) ==
  IF st[p] = x
    THEN [st |-> st, log |-> <<>>]
    ELSE NotifyListeners(p, L[p], [st EXCEPT !.voltage = x, !.resistance = x],
                         L, <<>>)
PropertySet(p, x, st, L) ==
  IF st[p] = x
    THEN [st |-> st, log |-> <<>>]
    ELSE NotifyListeners(p, L[p], [st EXCEPT ![p] = x], L, <<>>)

\* OhmsLawModel.reset
Reset_keepResistance(st, L) ==
  LET r1 == PropertySet("voltage", VOLTAGE_RANGE.defaultValue, st, L)
  IN  [st |-> r1.st, log |-> r1.log,
       thrown |-> IF "soundActiveProperty" \in ModelProperties
                    THEN "none" ELSE "TypeError"]
Reset_elseIf(st, L) ==
  LET r == IF st.voltage # VOLTAGE_RANGE.defaultValue
             THEN PropertySet("voltage", VOLTAGE_RANGE.defaultValue, st, L)
             ELSE PropertySet("resistance", RESISTANCE_RANGE.defaultValue, st, L)
  IN  [st |-> r.st, log |-> r.log,
       thrown |-> IF "soundActiveProperty" \in ModelProperties
                    THEN "none" ELSE "TypeError"]
Reset(st, L) ==
  LET r1 == PropertySet("voltage", VOLTAGE_RANGE.defaultValue, st, L)
      r2 == PropertySet("resistance", RESISTANCE_RANGE.defaultValue, r1.st, L)
  IN  [st |-> r2.st, log |-> r1.log \o r2.log,
       thrown |-> IF "soundActiveProperty" \in ModelProperties
                    THEN "none" ELSE "TypeError"]

----------------------------------------------------------------------------
(* Views *)

\* the height of a RightAngleArrow showing current c: the arrow is scaled by
\* an increasing function of the current (here one view unit per 0.1 mA);
\* 0 stands for the bounds of an arrow whose scale is not a positive number
ArrowHeight(c) ==
  IF c.d = 0 \/ c.n < 0 THEN 0 ELSE (10 * c.n) \div c.d

\* this.bottomLeftArrow.height after the observer calls of lg, h0 before them
LastArrowHeight(lg, h0) ==
  LET idx == {i \in DOMAIN lg : lg[i].listener = "bottomLeftArrow"}
  IN  IF idx = {} THEN h0
      ELSE ArrowHeight(lg[CHOOSE i \in idx : \A j \in idx : j <= i].value)

\* Util.linear( a1, b1, a2, b2, a3 )
Linear(a1, b1, a2, b2, a3) ==
  Quotient((b2 - a2) * (a3 - a1) + a2 * (b1 - a1), b1 - a1)

\* Util.roundSymmetric: halves round away from zero; a non-finite argument is
\* returned as it is (-1 and NumRelativeSizeStrings stand for NaN or -Infinity
\* and for Infinity: no valid index either way)
RoundSymmetric(q) ==
  IF q.d = 0 THEN (IF q.n > 0 THEN NumRelativeSizeStrings ELSE -1)
  ELSE (IF q.n < 0 THEN -1 ELSE 1) * ((2 * Abs(q.n) + q.d) \div (2 * q.d))

\* the index WireBox.getArrowSizeDescription computes for arrow height
\* `height` and this.minArrowHeight `minH`
ArrowSizeIndex_noClamp(height, minH) ==
  RoundSymmetric(Linear(minH, HEIGHT * 2, 0, NumRelativeSizeStrings - 1, height))
ArrowSizeIndex(height, minH) ==
  LET maxArrowHeightThresholdCoefficient == 2
      maxArrowHeightThreshold == HEIGHT * maxArrowHeightThresholdCoefficient
      index == RoundSymmetric(Linear(minH, maxArrowHeightThreshold,
                                     0, NumRelativeSizeStrings - 1, height))
  IN  IF height > maxArrowHeightThreshold
        THEN NumRelativeSizeStrings - 1
        ELSE index

\* ResistorNode: adjust this to control the density of the dots
AREA_PER_DOT == 40

\* RESISTOR_WIDTH and RESISTOR_HEIGHT, in tenths of a view unit
RESISTOR_WIDTH == (WIDTH * 10000) \div 2123
RESISTOR_HEIGHT == (HEIGHT * 1000) \div 275

\* Util.roundSymmetric( length / Math.sqrt( AREA_PER_DOT ) ), for a length in
\* tenths of a view unit: the n with n - 1/2 <= length / sqrt( area ) < n + 1/2
GridCount(length) ==
  CHOOSE n \in 0..100 :
    /\ n = 0 \/ (2 * n - 1) * (2 * n - 1) * AREA_PER_DOT * 100 <= 4 * length * length
    /\ 4 * length * length < (2 * n + 1) * (2 * n + 1) * AREA_PER_DOT * 100

DOT_GRID_ROWS == GridCount(RESISTOR_HEIGHT)
DOT_GRID_COLUMNS == GridCount(RESISTOR_WIDTH)
MAX_DOTS == DOT_GRID_COLUMNS * DOT_GRID_ROWS

\* the dots the constructor creates: one for each i in 1..COLUMNS-1 and j in
\* 1..ROWS-1; after the shuffle a dot is known by its index in
\* dotsNode.children, 0 .. NumDotsCreated - 1
NumDotsCreated == (DOT_GRID_COLUMNS - 1) * (DOT_GRID_ROWS - 1)

\* RESISTANCE_TO_NUM_DOTS: the clamped LinearFunction from the resistance
\* range onto [MAX_DOTS * 0.05, MAX_DOTS], as an exact quotient
RESISTANCE_TO_NUM_DOTS(r) ==
  LET q == Linear(RESISTANCE_RANGE.min, RESISTANCE_RANGE.max,
                  MAX_DOTS, 20 * MAX_DOTS, r)      \* twenty times the value
      c == IF q.n < MAX_DOTS * q.d THEN Quotient(MAX_DOTS, 1)
           ELSE IF q.n > 20 * MAX_DOTS * q.d THEN Quotient(20 * MAX_DOTS, 1)
           ELSE q
  IN  Quotient(c.n, 20 * c.d)

\* the resistanceProperty listener of ResistorNode: the indices of the dots
\* it makes visible for resistance r
VisibleDots_inverted(r) ==
  LET numDotsToShow == RESISTANCE_TO_NUM_DOTS(r)
  IN  {index \in 0..(NumDotsCreated - 1) :
         index * numDotsToShow.d >= numDotsToShow.n}
VisibleDots(r) ==
  LET numDotsToShow == RESISTANCE_TO_NUM_DOTS(r)
  IN  {index \in 0..(NumDotsCreated - 1) :
         index * numDotsToShow.d < numDotsToShow.n}

\* the visible dots after the observer calls of lg, v0 before them
LastVisibleDots(lg, v0) ==
  LET idx == {i \in DOMAIN lg : lg[i].listener = "resistorNode"}
  IN  IF idx = {} THEN v0
      ELSE VisibleDots(lg[CHOOSE i \in idx : \A j \in idx : j <= i].value)

\* the range a SliderUnit is built with
RangeOf(p) == IF p = "voltage" THEN VOLTAGE_RANGE ELSE RESISTANCE_RANGE

\* the values a pointer position on (or beyond) the slider track maps to
\* before the slider constrains them
SliderPositions(p) ==
  LET rg == RangeOf(p)
  IN  {rg.min + (i * (rg.max - rg.min)) \div GridSteps : i \in -1..(GridSteps + 1)}
        \cup {0, rg.max}

\* HSlider( property, range ): the slider sets its property to the dragged
\* value constrained to the range
HSliderSet_noClamp(p, x, st, L) == PropertySet(p, x, st, L)
HSliderSet(p, x, st, L) ==
  PropertySet(p, Clamp(x, RangeOf(p).min, RangeOf(p).max), st, L)

SliderListener(p) == IF p = "voltage" THEN "voltageSlider" ELSE "resistanceSlider"

----------------------------------------------------------------------------
(* State machine *)

Op(name, arg) == [name |-> name, arg |-> arg, repeated |-> lastOp.name = name]

\* the effect of an operation on the model, its listener lists and the record
\* of the operation
Commit(r, L, th, op) ==
  /\ voltage' = r.st.voltage
  /\ resistance' = r.st.resistance
  /\ current' = r.st.current
  /\ voltageListeners' = L.voltage
  /\ resistanceListeners' = L.resistance
  /\ currentListeners' = L.current
  /\ log' = r.log
  /\ lastOp' = op
  /\ prev' = State
  /\ thrown' = th
  /\ bottomLeftArrowHeight' = LastArrowHeight(r.log, bottomLeftArrowHeight)
  /\ visibleDots' = LastVisibleDots(r.log, visibleDots)

\* new OhmsLawModel(): the state after construction
Init ==
  /\ voltage = VOLTAGE_RANGE.defaultValue
  /\ resistance = RESISTANCE_RANGE.defaultValue
  /\ current = Derivation(VOLTAGE_RANGE.defaultValue, RESISTANCE_RANGE.defaultValue)
  /\ voltageListeners = <<DerivedListener>>
  /\ resistanceListeners = <<DerivedListener>>
  /\ currentListeners = <<>>
  /\ log = <<>>
  /\ lastOp = [name |-> "OhmsLawModel", arg |-> 0, repeated |-> FALSE]
  /\ prev = [voltage |-> VOLTAGE_RANGE.defaultValue,
             resistance |-> RESISTANCE_RANGE.defaultValue,
             current |-> Derivation(VOLTAGE_RANGE.defaultValue,
                                    RESISTANCE_RANGE.defaultValue)]
  /\ thrown = "none"
  /\ wireBox = "none"
  /\ minArrowHeight = 0
  /\ bottomLeftArrowHeight = 0
  /\ sliderUnits = {}
  /\ sizeIndex = 0
  /\ assertion = "none"
  /\ visibleDots = {}

\* new WireBox( model, ... )
ConstructWireBox ==
  /\ wireBox = "none"
  /\ LET st0 == State
         L1 == [voltage |-> Append(voltageListeners, "batteriesView"),
                resistance |-> Append(resistanceListeners, "resistorNode"),
                current |-> currentListeners \o
                  <<"bottomLeftArrow", "bottomRightArrow", "currentReadoutPanel">>]
         lg1 == <<Entry("batteriesView", "voltage", st0),
                  Entry("resistorNode", "resistance", st0),
                  Entry("bottomLeftArrow", "current", st0),
                  Entry("bottomRightArrow", "current", st0),
                  Entry("currentReadoutPanel", "current", st0)>>
         r1 == PropertySet("voltage", VOLTAGE_RANGE.min, st0, L1)
         r2 == PropertySet("resistance", RESISTANCE_RANGE.max, r1.st, L1)
         lg2 == lg1 \o r1.log \o r2.log
         r3 == Reset(r2.st, L1)
         finished == r3.thrown = "none"
         L2 == IF finished
                 THEN [L1 EXCEPT !.current = Append(@, "accessibleCurrentNode")]
                 ELSE L1
         lg3 == lg2 \o r3.log \o
                  (IF finished
                     THEN <<Entry("accessibleCurrentNode", "current", r3.st)>>
                     ELSE <<>>)
     IN  /\ Commit([st |-> r3.st, log |-> lg3], L2, r3.thrown, Op("WireBox", 0))
         /\ minArrowHeight' = LastArrowHeight(lg2, bottomLeftArrowHeight)
         /\ wireBox' = IF finished THEN "constructed" ELSE "aborted"
         /\ sizeIndex' = IF finished
                           THEN ArrowSizeIndex(LastArrowHeight(lg3, bottomLeftArrowHeight),
                                               LastArrowHeight(lg2, bottomLeftArrowHeight))
                           ELSE sizeIndex
  /\ UNCHANGED <<sliderUnits, assertion>>

\* new SliderUnit( property, range, ... ): property.link of the readout
ConstructSliderUnit(p) ==
  /\ p \notin sliderUnits
  /\ sliderUnits' = sliderUnits \cup {p}
  /\ Commit([st |-> State, log |-> <<Entry(SliderListener(p), p, State)>>],
            [Listeners EXCEPT ![p] = Append(@, SliderListener(p))],
            "none", Op("SliderUnit", 0))
  /\ UNCHANGED <<wireBox, minArrowHeight, sizeIndex, assertion>>

\* the voltage slider is dragged to position x
SetVoltage(x) ==
  /\ "voltage" \in sliderUnits
  /\ Commit(HSliderSet("voltage", x, State, Listeners), Listeners, "none",
            Op("setVoltage", x))
  /\ UNCHANGED <<wireBox, minArrowHeight, sliderUnits, sizeIndex, assertion>>

\* the resistance slider is dragged to position x
SetResistance(x) ==
  /\ "resistance" \in sliderUnits
  /\ Commit(HSliderSet("resistance", x, State, Listeners), Listeners, "none",
            Op("setResistance", x))
  /\ UNCHANGED <<wireBox, minArrowHeight, sliderUnits, sizeIndex, assertion>>

\* model.reset()
ResetModel ==
  /\ LET r == Reset(State, Listeners)
     IN  Commit(r, Listeners, r.thrown, Op("reset", 0))
  /\ UNCHANGED <<wireBox, minArrowHeight, sliderUnits, sizeIndex, assertion>>

\* wireBox.getArrowSizeDescription()
GetArrowSizeDescription ==
  /\ wireBox # "none"
  /\ LET index == ArrowSizeIndex(bottomLeftArrowHeight, minArrowHeight)
         ok == index >= 0 /\ index < NumRelativeSizeStrings
     IN  /\ sizeIndex' = index
         /\ assertion' = IF ok THEN "passed" ELSE "failed"
         /\ thrown' = IF ok THEN "none" ELSE "AssertionError"
  /\ lastOp' = Op("getArrowSizeDescription", 0)
  /\ prev' = State
  /\ log' = <<>>
  /\ UNCHANGED <<voltage, resistance, current, voltageListeners,
                 resistanceListeners, currentListeners, wireBox,
                 minArrowHeight, bottomLeftArrowHeight, sliderUnits,
                 visibleDots>>

Next ==
  \/ ConstructWireBox
  \/ \E p \in {"voltage", "resistance"} : ConstructSliderUnit(p)
  \/ \E x \in SliderPositions("voltage") : SetVoltage(x)
  \/ \E x \in SliderPositions("resistance") : SetResistance(x)
  \/ ResetModel
  \/ GetArrowSizeDescription

Spec == Init /\ [][Next]_vars

\* model.voltageProperty.set( x ), called on the model directly
VoltagePropertySet(x) ==
  /\ Commit(PropertySet("voltage", x, State, Listeners), Listeners, "none",
            Op("voltageProperty.set", x))
  /\ UNCHANGED <<wireBox, minArrowHeight, sliderUnits, sizeIndex, assertion>>

\* model.resistanceProperty.set( x ), called on the model directly
ResistancePropertySet(x) ==
  /\ Commit(PropertySet("resistance", x, State, Listeners), Listeners, "none",
            Op("resistanceProperty.set", x))
  /\ UNCHANGED <<wireBox, minArrowHeight, sliderUnits, sizeIndex, assertion>>

\* the model object under any caller of its public properties
NextApi ==
  \/ ConstructWireBox
  \/ \E p \in {"voltage", "resistance"} : ConstructSliderUnit(p)
  \/ \E x \in SliderPositions("voltage") : SetVoltage(x)
  \/ \E x \in SliderPositions("resistance") : SetResistance(x)
  \/ ResetModel
  \/ \E x \in SliderPositions("voltage") : VoltagePropertySet(x)
  \/ \E x \in SliderPositions("resistance") : ResistancePropertySet(x)

SpecApi == Init /\ [][NextApi]_vars

----------------------------------------------------------------------------
(* Properties *)

InRange(x, rg) == rg.min <= x /\ x <= rg.max

ListenerSet(ls) == {ls[i] : i \in DOMAIN ls}

\* C1: in every reachable state, and at every observer call of the last
\* operation, current is exactly 1000 * voltage / resistance for the voltage
\* and resistance held at that moment.
CurrentIsDerived ==
  /\ current = Derivation(voltage, resistance)
  /\ \A i \in DOMAIN log :
       log[i].current = Derivation(log[i].voltage, log[i].resistance)

\* C1 witness: a slider set changed the voltage and both a current observer
\* and a voltage observer were called.
CurrentIsDerivedWitness ==
  /\ lastOp.name = "setVoltage"
  /\ voltage # prev.voltage
  /\ \E i, j \in DOMAIN log :
       log[i].property = "current" /\ log[j].property = "voltage"

\* C2: after reset(), voltage and resistance hold their defaults and current
\* is 1000 * defaultVoltage / defaultResistance.
ResetRestoresDefaults ==
  lastOp.name = "reset" =>
    /\ voltage = VOLTAGE_RANGE.defaultValue
    /\ resistance = RESISTANCE_RANGE.defaultValue
    /\ current = Derivation(VOLTAGE_RANGE.defaultValue,
                            RESISTANCE_RANGE.defaultValue)

\* C2 witness: reset() was called with both inputs away from their defaults.
ResetRestoresDefaultsWitness ==
  /\ lastOp.name = "reset"
  /\ prev.voltage # VOLTAGE_RANGE.defaultValue
  /\ prev.resistance # RESISTANCE_RANGE.defaultValue
  /\ prev.current # current

\* C3 as stated: voltage and resistance are always within their ranges, a set
\* with an out-of-range argument stores the nearest bound, and no set raises
\* an error.
SetsAreClamped ==
  /\ InRange(voltage, VOLTAGE_RANGE)
  /\ InRange(resistance, RESISTANCE_RANGE)
  /\ lastOp.name \in {"setVoltage", "voltageProperty.set"} =>
       /\ voltage = Clamp(lastOp.arg, VOLTAGE_RANGE.min, VOLTAGE_RANGE.max)
       /\ thrown = "none"
  /\ lastOp.name \in {"setResistance", "resistanceProperty.set"} =>
       /\ resistance = Clamp(lastOp.arg, RESISTANCE_RANGE.min, RESISTANCE_RANGE.max)
       /\ thrown = "none"

\* C3 amended: a set made through a slider stores the argument clamped to the
\* nearest bound of the slider's range; a set made on the model's property
\* stores the argument as given, in range or not; neither raises an error.
SlidersClampPropertiesStore ==
  /\ lastOp.name = "setVoltage" =>
       /\ voltage = Clamp(lastOp.arg, VOLTAGE_RANGE.min, VOLTAGE_RANGE.max)
       /\ thrown = "none"
  /\ lastOp.name = "setResistance" =>
       /\ resistance = Clamp(lastOp.arg, RESISTANCE_RANGE.min, RESISTANCE_RANGE.max)
       /\ thrown = "none"
  /\ lastOp.name = "voltageProperty.set" =>
       voltage = lastOp.arg /\ thrown = "none"
  /\ lastOp.name = "resistanceProperty.set" =>
       resistance = lastOp.arg /\ thrown = "none"

\* C3 witness: the voltage slider was dragged below the range and the voltage
\* is the range minimum, while the resistance was earlier set on the property
\* to a value above the range and still holds it.
SlidersClampPropertiesStoreWitness ==
  /\ lastOp.name = "setVoltage"
  /\ lastOp.arg < VOLTAGE_RANGE.min
  /\ voltage = VOLTAGE_RANGE.min
  /\ resistance > RESISTANCE_RANGE.max

\* C4 as stated: on a set of voltage (or resistance), every observer of the
\* input is called before any observer of current.
InputObserversFirst ==
  lastOp.name \in {"setVoltage", "setResistance"} =>
    \A i, j \in DOMAIN log :
      log[i].property # "current" /\ log[j].property = "current" => i < j

\* C4 amended: on a set of voltage (or resistance) to a new value, every
\* observer of current is called, with the newly derived current, before any
\* observer of the input is called with the new input; in every call the
\* input already holds its new value.
CurrentObserversFirst ==
  lastOp.name \in {"setVoltage", "setResistance"} =>
    /\ \A i, j \in DOMAIN log :
         log[i].property = "current" /\ log[j].property # "current" => i < j
    /\ \A i \in DOMAIN log :
         /\ log[i].voltage = voltage
         /\ log[i].resistance = resistance
         /\ log[i].property = "current" => log[i].value = current
         /\ log[i].property = "voltage" => log[i].value = voltage
         /\ log[i].property = "resistance" => log[i].value = resistance
    /\ ListenerSet(currentListeners) # {} /\ current # prev.current =>
         \E i \in DOMAIN log : log[i].property = "current"

\* C4 witness: a slider set changed the voltage with observers registered on
\* both voltage and current; the first call went to a current observer and
\* the last to a voltage observer.
CurrentObserversFirstWitness ==
  /\ lastOp.name = "setVoltage"
  /\ voltage # prev.voltage
  /\ Len(log) >= 2
  /\ log[1].property = "current"
  /\ log[Len(log)].property = "voltage"

\* C5: a set of voltage to a value x that differs from the present voltage
\* calls every observer of current exactly once, with 1000 * x / resistance.
CurrentObserverCalledOnce ==
  lastOp.name = "setVoltage" /\ voltage # prev.voltage =>
    \A l \in ListenerSet(currentListeners) :
      LET calls == {i \in DOMAIN log : log[i].listener = l}
      IN  /\ Cardinality(calls) = 1
          /\ \A i \in calls :
               /\ log[i].property = "current"
               /\ log[i].value =
                    Derivation(Clamp(lastOp.arg, VOLTAGE_RANGE.min, VOLTAGE_RANGE.max),
                               prev.resistance)

\* C5 witness: the voltage slider changed the voltage while observers were
\* registered on current.
CurrentObserverCalledOnceWitness ==
  /\ lastOp.name = "setVoltage"
  /\ voltage # prev.voltage
  /\ ListenerSet(currentListeners) # {}
  /\ prev.resistance # RESISTANCE_RANGE.defaultValue

\* C6: a set of voltage, through the slider or on the property, leaves
\* resistance unchanged, and a set of resistance leaves voltage unchanged.
InputsAreIndependent ==
  [][/\ (\E x \in SliderPositions("voltage") :
            SetVoltage(x) \/ VoltagePropertySet(x)) => resistance' = resistance
     /\ (\E x \in SliderPositions("resistance") :
            SetResistance(x) \/ ResistancePropertySet(x)) => voltage' = voltage]_vars

\* C6 witness: a set changed the voltage while resistance was away from its
\* default and from the new voltage.
InputsAreIndependentWitness ==
  /\ lastOp.name \in {"setVoltage", "voltageProperty.set"}
  /\ voltage # prev.voltage
  /\ resistance # RESISTANCE_RANGE.defaultValue
  /\ resistance # voltage

\* C7: a reset() that directly follows a reset() changes none of voltage,
\* resistance and current.
ResetIsIdempotent ==
  [][lastOp.name = "reset" /\ ResetModel =>
       voltage' = voltage /\ resistance' = resistance /\ current' = current]_vars

\* C7 witness: reset() was called twice in succession, the first call having
\* changed the inputs.
ResetIsIdempotentWitness ==
  /\ lastOp.name = "reset"
  /\ lastOp.repeated
  /\ voltage = VOLTAGE_RANGE.defaultValue
  /\ resistance = RESISTANCE_RANGE.defaultValue

ConstructedWithDefaults ==
  lastOp.name = "OhmsLawModel" =>
    /\ voltage = VOLTAGE_RANGE.defaultValue
    /\ resistance = RESISTANCE_RANGE.defaultValue
    /\ 10 * current.n * resistance = 1000 * voltage * current.d
    /\ current = [n |-> 9, d |-> 1]

\* C9 witness: the model has just been constructed, nothing is linked yet.
ConstructedWithDefaultsWitness ==
  /\ lastOp.name = "OhmsLawModel"
  /\ log = <<>>
  /\ wireBox = "none"
  /\ sliderUnits = {}

\* C10: the index getArrowSizeDescription computes is a valid index of the
\* relative-size strings for every arrow height reached: it is within half a
\* step of the linear map of [minArrowHeight, threshold] onto [0, N - 1], it
\* is N - 1 above the threshold, and the assertion never fails.
ArrowSizeIndexInRange ==
  /\ assertion # "failed"
  /\ wireBox # "none" =>
       LET h == bottomLeftArrowHeight
           threshold == 2 * HEIGHT
           index == ArrowSizeIndex(h, minArrowHeight)
       IN  /\ index >= 0 /\ index < NumRelativeSizeStrings
           /\ h >= minArrowHeight
           /\ h > threshold => index = NumRelativeSizeStrings - 1
           /\ h <= threshold =>
                2 * Abs(index * (threshold - minArrowHeight)
                        - (NumRelativeSizeStrings - 1) * (h - minArrowHeight))
                  <= threshold - minArrowHeight
  /\ lastOp.name = "getArrowSizeDescription" =>
       sizeIndex >= 0 /\ sizeIndex < NumRelativeSizeStrings

\* C10 witness: getArrowSizeDescription ran with the arrow above the
\* threshold and returned the last index.
ArrowSizeIndexInRangeWitness ==
  /\ lastOp.name = "getArrowSizeDescription"
  /\ assertion = "passed"
  /\ bottomLeftArrowHeight > 2 * HEIGHT
  /\ sizeIndex = NumRelativeSizeStrings - 1

\* C11: reset() completes normally from every reachable state: it raises no
\* error and returns with voltage and resistance restored.
ResetCompletes ==
  lastOp.name = "reset" =>
    /\ thrown = "none"
    /\ voltage = VOLTAGE_RANGE.defaultValue
    /\ resistance = RESISTANCE_RANGE.defaultValue

\* C12: when the WireBox constructor has run, voltage and resistance are back
\* at their defaults, minArrowHeight is the arrow height at the minimum
\* current (minimum voltage, maximum resistance), the constructor has
\* finished, and the observer of the accessible current description is the
\* last listener linked to current.
WireBoxConstructed ==
  lastOp.name = "WireBox" =>
    /\ voltage = VOLTAGE_RANGE.defaultValue
    /\ resistance = RESISTANCE_RANGE.defaultValue
    /\ minArrowHeight =
         ArrowHeight(Derivation(VOLTAGE_RANGE.min, RESISTANCE_RANGE.max))
    /\ wireBox = "constructed"
    /\ thrown = "none"
    /\ currentListeners # <<>>
    /\ currentListeners[Len(currentListeners)] = "accessibleCurrentNode"

\* C13: once the ResistorNode exists, the visible dots are exactly the dots
\* whose index in the shuffled list is below RESISTANCE_TO_NUM_DOTS(resistance),
\* a prefix of the list; at the maximum resistance every created dot is
\* visible, at the minimum resistance as many dots are visible as there are
\* indices below 5% of MAX_DOTS; and a step that does not lower resistance
\* hides no dot.
DotsFollowResistance ==
  /\ [](wireBox # "none" =>
          LET span == RESISTANCE_RANGE.max - RESISTANCE_RANGE.min
          IN  /\ \A index \in 0..(NumDotsCreated - 1) :
                   index \in visibleDots <=>
                     20 * index * span <
                       MAX_DOTS * span
                         + 19 * MAX_DOTS * (resistance - RESISTANCE_RANGE.min)
              /\ \A i \in visibleDots : \A j \in 0..i : j \in visibleDots
              /\ resistance = RESISTANCE_RANGE.max =>
                   visibleDots = 0..(NumDotsCreated - 1)
              /\ resistance = RESISTANCE_RANGE.min =>
                   /\ 20 * (Cardinality(visibleDots) - 1) < MAX_DOTS
                   /\ MAX_DOTS <= 20 * Cardinality(visibleDots))
  /\ [][wireBox # "none" /\ resistance' >= resistance =>
          visibleDots \subseteq visibleDots']_vars

\* C13 witness: the resistance slider moved resistance from the maximum, with
\* every dot visible, to the minimum, and only a proper non-empty prefix of
\* the dots is left visible.
DotsFollowResistanceWitness ==
  /\ wireBox # "none"
  /\ lastOp.name = "setResistance"
  /\ prev.resistance = RESISTANCE_RANGE.max
  /\ resistance = RESISTANCE_RANGE.min
  /\ visibleDots # {}
  /\ Cardinality(visibleDots) < NumDotsCreated

====
